---------------------------- MODULE Spec2Model ----------------------------
(***************************************************************************)
(* Model of task3/solution.py: the interval-overlap accumulator            *)
(* (appearance and its three helpers).  Every function of the module is    *)
(* pure, so each one is an operator computed the way the code computes     *)
(* it (same loops, same comparisons, same order), and one action per       *)
(* function applies it to inputs drawn from bounded sets.                  *)
(* Further down: task1/solution.py (the strict decorator) and, of          *)
(* task2/solution.py, AnimalDataStore and WikipediaAnimalScraper.run.      *)
(*                                                                         *)
(* Python lists are sequences (list index i is sequence index i + 1),      *)
(* tuples (start, end) are the 2-element sequences <<start, end>>, and a   *)
(* dict is a function whose DOMAIN is its set of keys.                     *)
(***************************************************************************)
EXTENDS Integers, Sequences, FiniteSets, TLC

\* ------------------------------------------------------------------ bounds

\* _parse_timestamps_to_intervals and _clip_intervals_to_lesson are run on
\* timestamps 0 .. MaxTime.
MaxTime == 3

\* Longest flat timestamp list handed to _parse_timestamps_to_intervals.
MaxStamps == 5

\* Longest interval list handed to _clip_intervals_to_lesson and (each of
\* the two) to _calculate_overlap_duration.
MaxIntervals == 2

\* _calculate_overlap_duration and appearance are run on timestamps
\* 0 .. MaxSessionTime.
MaxSessionTime == 2

\* appearance: the longest 'pupil', 'tutor' and 'lesson' lists.
MaxPupilLen == 4

MaxTutorLen == 4

MaxLessonLen == 3

Time == 0 .. MaxTime

SessionTime == 0 .. MaxSessionTime

\* All sequences over S of length at most n.
SeqUpTo(S, n) == UNION {[1 .. k -> S] : k \in 0 .. n}

\* Tuples (start, end) over S, well-formed or not.
Pairs(S) == {<<s, e>> : s \in S, e \in S}

\* Tuples (start, end) over S with start < end.
Intervals(S) == {p \in Pairs(S) : p[1] < p[2]}

Max(a, b) == IF a >= b THEN a ELSE b

Min(a, b) == IF a <= b THEN a ELSE b

\* ------------------------------------------------- _parse_timestamps_to_intervals

\* Mutant of ParseLoop: after a dropped pair the loop moves on by one
\* element instead of two, so the pairing of what follows is shifted.
RECURSIVE ParseLoop_ShiftOnDrop(_, _, _)
ParseLoop_ShiftOnDrop(timestamps, i, intervals) ==
    IF i >= Len(timestamps) THEN intervals
    ELSE IF i + 1 < Len(timestamps)
         THEN LET start == timestamps[i + 1]
                  end   == timestamps[i + 2]
              IN  IF start < end
                  THEN ParseLoop_ShiftOnDrop(timestamps, i + 2,
                                             Append(intervals, <<start, end>>))
                  ELSE ParseLoop_ShiftOnDrop(timestamps, i + 1, intervals)
         ELSE ParseLoop_ShiftOnDrop(timestamps, i + 2, intervals)

\* Mutant of ParseLoop: `range(0, len(timestamps))`, the step of 2 left
\* out, so every element is also paired with its successor.
RECURSIVE ParseLoop_StepOne(_, _, _)
ParseLoop_StepOne(timestamps, i, intervals) ==
    IF i >= Len(timestamps) THEN intervals
    ELSE IF i + 1 < Len(timestamps)
         THEN LET start == timestamps[i + 1]
                  end   == timestamps[i + 2]
              IN  IF start < end
                  THEN ParseLoop_StepOne(timestamps, i + 1,
                                         Append(intervals, <<start, end>>))
                  ELSE ParseLoop_StepOne(timestamps, i + 1, intervals)
         ELSE ParseLoop_StepOne(timestamps, i + 1, intervals)

\* The loop `for i in range(0, len(timestamps), 2)` from index i on
\* (i is the 0-based Python index), appending to the list `intervals`.
RECURSIVE ParseLoop(_, _, _)
ParseLoop(timestamps, i, intervals) ==
    IF i >= Len(timestamps) THEN intervals
    ELSE IF i + 1 < Len(timestamps)
         THEN LET start == timestamps[i + 1]
                  end   == timestamps[i + 2]
              IN  IF start < end
                  THEN ParseLoop(timestamps, i + 2, Append(intervals, <<start, end>>))
                  ELSE ParseLoop(timestamps, i + 2, intervals)
         ELSE ParseLoop(timestamps, i + 2, intervals)

_parse_timestamps_to_intervals(timestamps) == ParseLoop(timestamps, 0, <<>>)

\* ------------------------------------------------------ _clip_intervals_to_lesson

\* Mutant of ClipOne: the end is not clipped (`effective_end = end`).
ClipOne_EndNotClipped(start, end, lesson_start, lesson_end) ==
    LET effective_start == Max(start, lesson_start)
        effective_end   == end
    IN  IF effective_start < effective_end
        THEN <<(<<effective_start, effective_end>>)>>
        ELSE <<>>

\* Mutant of ClipOne: the filter tests the unclipped start
\* (`if start < effective_end`).
ClipOne_FilterOnStart(start, end, lesson_start, lesson_end) ==
    LET effective_start == Max(start, lesson_start)
        effective_end   == Min(end, lesson_end)
    IN  IF start < effective_end
        THEN <<(<<effective_start, effective_end>>)>>
        ELSE <<>>

\* Mutant of ClipOne: the filter keeps collapsed clips
\* (`if effective_start <= effective_end`).
ClipOne_KeepCollapsed(start, end, lesson_start, lesson_end) ==
    LET effective_start == Max(start, lesson_start)
        effective_end   == Min(end, lesson_end)
    IN  IF effective_start <= effective_end
        THEN <<(<<effective_start, effective_end>>)>>
        ELSE <<>>

\* The body of the loop for one tuple: what it appends to
\* clipped_intervals (nothing, or the clipped tuple).
ClipOne(start, end, lesson_start, lesson_end) ==
    LET effective_start == Max(start, lesson_start)
        effective_end   == Min(end, lesson_end)
    IN  IF effective_start < effective_end
        THEN <<(<<effective_start, effective_end>>)>>
        ELSE <<>>

\* The loop `for start, end in intervals` from the k-th tuple on (k is the
\* 1-based position), appending to the list `clipped_intervals`.
RECURSIVE ClipLoop(_, _, _, _, _)
ClipLoop(intervals, k, lesson_start, lesson_end, clipped_intervals) ==
    IF k > Len(intervals) THEN clipped_intervals
    ELSE ClipLoop(intervals, k + 1, lesson_start, lesson_end,
                  clipped_intervals
                  \o ClipOne(intervals[k][1], intervals[k][2],
                             lesson_start, lesson_end))

_clip_intervals_to_lesson(intervals, lesson_start, lesson_end) ==
    ClipLoop(intervals, 1, lesson_start, lesson_end, <<>>)

\* ---------------------------------------------------- _calculate_overlap_duration

\* Mutant of CommonOne: the intersection ends where r1 ends
\* (`overlap_end = r1_end`).
CommonOne_EndOfFirst(r1_start, r1_end, r2_start, r2_end) ==
    LET overlap_start == Max(r1_start, r2_start)
        overlap_end   == r1_end
    IN  IF overlap_start < overlap_end
        THEN <<(<<overlap_start, overlap_end>>)>>
        ELSE <<>>

\* The body of the nested loops for one pair of tuples: what it appends to
\* common_segments (nothing, or the intersection).
CommonOne(r1_start, r1_end, r2_start, r2_end) ==
    LET overlap_start == Max(r1_start, r2_start)
        overlap_end   == Min(r1_end, r2_end)
    IN  IF overlap_start < overlap_end
        THEN <<(<<overlap_start, overlap_end>>)>>
        ELSE <<>>

\* The nested loops `for r1 in intervals1: for r2 in intervals2` from the
\* pair (i, j) on, appending to the list `common_segments`.
RECURSIVE CommonLoop(_, _, _, _, _)
CommonLoop(intervals1, intervals2, i, j, common_segments) ==
    IF i > Len(intervals1) THEN common_segments
    ELSE IF j > Len(intervals2)
         THEN CommonLoop(intervals1, intervals2, i + 1, 1, common_segments)
         ELSE CommonLoop(intervals1, intervals2, i, j + 1,
                         common_segments
                         \o CommonOne(intervals1[i][1], intervals1[i][2],
                                      intervals2[j][1], intervals2[j][2]))

CommonSegments(intervals1, intervals2) ==
    CommonLoop(intervals1, intervals2, 1, 1, <<>>)

\* list.sort(key=lambda x: x[0]): Python's sort is stable, so the result is
\* the one ordering by start that keeps tuples of equal start in their
\* original relative order.  Computed by stable insertion: x goes behind
\* every tuple whose start is <= its own.
RECURSIVE InsertByStart(_, _)
InsertByStart(sorted, x) ==
    IF sorted = <<>> THEN <<x>>
    ELSE LET last == sorted[Len(sorted)]
         IN  IF last[1] <= x[1]
             THEN Append(sorted, x)
             ELSE Append(InsertByStart(SubSeq(sorted, 1, Len(sorted) - 1), x), last)

RECURSIVE SortLoop(_)
SortLoop(segments) ==
    IF segments = <<>> THEN <<>>
    ELSE InsertByStart(SortLoop(SubSeq(segments, 1, Len(segments) - 1)),
                       segments[Len(segments)])

SortByStart(segments) == SortLoop(segments)

\* Mutant of MergeStep: a merged segment takes the end of the segment
\* merged into it (`current_merged_end = next_end`, the max left out).
MergeStep_NoMax(current_merged_start, current_merged_end, next_start, next_end) ==
    IF next_start < current_merged_end
    THEN <<current_merged_start, next_end, <<>> >>
    ELSE <<next_start, next_end,
           <<(<<current_merged_start, current_merged_end>>)>> >>

\* Mutant of MergeStep: a segment that only touches the running one is
\* merged too (`if next_start <= current_merged_end`).
MergeStep_MergeTouching(current_merged_start, current_merged_end, next_start, next_end) ==
    IF next_start <= current_merged_end
    THEN <<current_merged_start, Max(current_merged_end, next_end), <<>> >>
    ELSE <<next_start, next_end,
           <<(<<current_merged_start, current_merged_end>>)>> >>

\* The running segment after the sweep has looked at (next_start, next_end):
\* <<current_merged_start, current_merged_end, flushed>>, where flushed is
\* what the step appends to merged_segments.
MergeStep(current_merged_start, current_merged_end, next_start, next_end) ==
    IF next_start < current_merged_end
    THEN <<current_merged_start, Max(current_merged_end, next_end), <<>> >>
    ELSE <<next_start, next_end,
           <<(<<current_merged_start, current_merged_end>>)>> >>

\* The merge sweep `for i in range(1, len(common_segments))` from the
\* 0-based index i on; the flush after the loop is its last step.
RECURSIVE MergeLoop(_, _, _, _, _)
MergeLoop(common_segments, i, current_merged_start, current_merged_end, merged_segments) ==
    IF i >= Len(common_segments)
    THEN Append(merged_segments, <<current_merged_start, current_merged_end>>)
    ELSE LET step == MergeStep(current_merged_start, current_merged_end,
                               common_segments[i + 1][1],
                               common_segments[i + 1][2])
         IN  MergeLoop(common_segments, i + 1, step[1], step[2],
                       merged_segments \o step[3])

\* Mutant of MergedSegments: the common segments are summed unmerged.
MergedSegments_Unmerged(common_segments) == common_segments

\* merged_segments as the code builds it from the sorted, non-empty
\* common_segments.
MergedSegments(common_segments) ==
    MergeLoop(common_segments, 1, common_segments[1][1], common_segments[1][2], <<>>)

\* `for start, end in merged_segments: total_duration += (end - start)`.
RECURSIVE TotalLoop(_)
TotalLoop(merged_segments) ==
    IF merged_segments = <<>> THEN 0
    ELSE TotalLoop(SubSeq(merged_segments, 1, Len(merged_segments) - 1))
         + (merged_segments[Len(merged_segments)][2]
            - merged_segments[Len(merged_segments)][1])

_calculate_overlap_duration(intervals1, intervals2) ==
    LET common_segments == CommonSegments(intervals1, intervals2)
    IN  IF common_segments = <<>> THEN 0
        ELSE TotalLoop(MergedSegments(SortByStart(common_segments)))

\* -------------------------------------------------------------------- appearance

\* dict.get(key, default).
DictGet(d, key, default) == IF key \in DOMAIN d THEN d[key] ELSE default

\* What a call produces: a returned value, or a raised exception.
Returned(v) == [raised |-> FALSE, value |-> v]

Raised == [raised |-> TRUE, value |-> 0]

\* Python's list subscript with a non-negative index: lst[i] raises
\* IndexError unless i < len(lst).
IndexInRange(lst, i) == i < Len(lst)

\* Mutant of LessonTooShort: only the empty lesson is rejected
\* (`if not lesson_times`).
LessonTooShort_EmptyOnly(lesson_times) == lesson_times = <<>>

\* `not lesson_times or len(lesson_times) < 2`.
LessonTooShort(lesson_times) == lesson_times = <<>> \/ Len(lesson_times) < 2

\* Mutant of LessonBounds: the two values are unpacked the other way round.
LessonBounds_Swapped(lesson_times) == <<lesson_times[2], lesson_times[1]>>

\* Mutant of LessonBounds: the end is read from the last value of the list
\* (`lesson_times[-1]`).
LessonBounds_LastAsEnd(lesson_times) ==
    <<lesson_times[1], lesson_times[Len(lesson_times)]>>

\* `lesson_start, lesson_end = lesson_times[0], lesson_times[1]`.
LessonBounds(lesson_times) == <<lesson_times[1], lesson_times[2]>>

appearance(intervals_data) ==
    LET lesson_times == DictGet(intervals_data, "lesson", <<>>)
        pupil_times  == DictGet(intervals_data, "pupil", <<>>)
        tutor_times  == DictGet(intervals_data, "tutor", <<>>)
    IN  IF LessonTooShort(lesson_times) THEN Returned(0)
        ELSE IF ~(IndexInRange(lesson_times, 0) /\ IndexInRange(lesson_times, 1))
        THEN Raised
        ELSE LET lesson_start == LessonBounds(lesson_times)[1]
                 lesson_end   == LessonBounds(lesson_times)[2]
             IN  IF lesson_start >= lesson_end THEN Returned(0)
                 ELSE LET pupil_intervals_raw ==
                              _parse_timestamps_to_intervals(pupil_times)
                          tutor_intervals_raw ==
                              _parse_timestamps_to_intervals(tutor_times)
                          pupil_effective_intervals ==
                              _clip_intervals_to_lesson(pupil_intervals_raw,
                                                        lesson_start, lesson_end)
                          tutor_effective_intervals ==
                              _clip_intervals_to_lesson(tutor_intervals_raw,
                                                        lesson_start, lesson_end)
                      IN  IF pupil_effective_intervals = <<>>
                             \/ tutor_effective_intervals = <<>>
                          THEN Returned(0)
                          ELSE Returned(_calculate_overlap_duration(
                                            pupil_effective_intervals,
                                            tutor_effective_intervals))

\* A key of the mapping is absent ({}) or bound to one list ({lst}).
Binding(lists) == {{}} \cup {{lst} : lst \in lists}

\* The dict with the bound keys among 'lesson', 'pupil', 'tutor'.
SessionInput(lesson, pupil, tutor) ==
    LET bound == [lesson |-> lesson, pupil |-> pupil, tutor |-> tutor]
    IN  [key \in {k \in DOMAIN bound : bound[k] # {}} |->
            CHOOSE lst \in bound[key] : TRUE]

\* ---------------------------------------------------------------- task1: strict

\* Most parameters of a decorated function.
MaxParams == 2

\* The types the decorator is documented for.
Types == {"bool", "int", "float", "str"}

\* The name of the k-th parameter, and the key of the return annotation in
\* func.__annotations__.
ParamName(k) == <<"param", k>>

ReturnKey == <<"return", 0>>

\* func.__annotations__ of a function whose k-th parameter is annotated
\* with annotated[k] ("" when it has no annotation) and whose return
\* annotation is returns ("" when it has none).
Annotations(annotated, returns) ==
    [key \in {ParamName(k) : k \in {j \in DOMAIN annotated : annotated[j] # ""}}
             \cup (IF returns # "" THEN {ReturnKey} ELSE {})
        |-> IF key = ReturnKey THEN returns ELSE annotated[key[2]]]

\* isinstance(value, expected_type) for a value of type value_type: bool is
\* a subclass of int, the other three types are unrelated.
IsInstance(value_type, expected_type) ==
    \/ value_type = expected_type
    \/ (value_type = "bool" /\ expected_type = "int")

\* What a call of the wrapper produces: the TypeError it raised and the
\* parameter the message names, or the wrapped function invoked.
TypeErrorFor(k) == [raised |-> TRUE, param |-> k, invoked |-> FALSE]

Invoked == [raised |-> FALSE, param |-> 0, invoked |-> TRUE]

\* The loop `for param_name, value in bound_args.arguments.items()` from
\* the k-th bound argument on (binding order is the order of the
\* signature), then `return func(*args, **kwargs)`.
RECURSIVE CheckLoop(_, _, _)
CheckLoop(func_annotations, arg_types, k) ==
    IF k > Len(arg_types) THEN Invoked
    ELSE IF ParamName(k) \in DOMAIN func_annotations
         THEN IF ParamName(k) = ReturnKey
              THEN CheckLoop(func_annotations, arg_types, k + 1)
              ELSE IF ~IsInstance(arg_types[k], func_annotations[ParamName(k)])
                   THEN TypeErrorFor(k)
                   ELSE CheckLoop(func_annotations, arg_types, k + 1)
         ELSE CheckLoop(func_annotations, arg_types, k + 1)

wrapper(func_annotations, arg_types) == CheckLoop(func_annotations, arg_types, 1)

\* ------------------------------------------------------- task2: AnimalDataStore

\* Most names in the list handed to one add_names call.
MaxNames == 2

\* Pages of the web, the largest page limit, and names found on one page.
NumUrls == 3

MaxPages == 3

MaxPageNames == 1

\* alphabet_chars, the letters the store counts: two letters stand for the
\* configured alphabet.
Alphabet == {"A", "B"}

\* A name is a string, here the tuple of its characters.  The names the
\* pages offer: the empty string, names that differ only in the case of
\* their first letter, names sharing a first letter, and a name whose first
\* character is no letter of the alphabet.
Names == {<<>>, <<"A">>, <<"a">>, <<"a", "b">>, <<"B">>, <<"1">>}

\* str.upper() of one character.
Upper(c) == CASE c = "a" -> "A"
              [] c = "b" -> "B"
              [] OTHER -> c

\* Counter[key]: 0 for a key the counter does not hold.
CounterGet(counter, key) == IF key \in DOMAIN counter THEN counter[key] ELSE 0

\* `counter[key] += 1`: the key is created when the counter does not hold it.
CounterIncrement(counter, key) ==
    [k \in DOMAIN counter \cup {key} |->
        IF k = key THEN CounterGet(counter, key) + 1 ELSE counter[k]]

\* AnimalDataStore.__init__.
NewStore == [_letter_counts |-> <<>>, _all_collected_names |-> {}]

\* Mutant of AddOne: a name is counted whether or not it was collected
\* before (`if name:`).
AddOne_CountsAgain(store, name) ==
    IF name # <<>>
    THEN LET first_char == Upper(name[1])
         IN  [_all_collected_names |-> store._all_collected_names \cup {name},
              _letter_counts |->
                  IF first_char \in Alphabet
                  THEN CounterIncrement(store._letter_counts, first_char)
                  ELSE store._letter_counts]
    ELSE store

\* The body of add_names' loop for one name.
AddOne(store, name) ==
    IF name # <<>> /\ name \notin store._all_collected_names
    THEN LET first_char == Upper(name[1])
         IN  [_all_collected_names |-> store._all_collected_names \cup {name},
              _letter_counts |->
                  IF first_char \in Alphabet
                  THEN CounterIncrement(store._letter_counts, first_char)
                  ELSE store._letter_counts]
    ELSE store

\* The loop `for name in names` from the k-th name on.
RECURSIVE AddLoop(_, _, _)
AddLoop(store, names, k) ==
    IF k > Len(names) THEN store
    ELSE AddLoop(AddOne(store, names[k]), names, k + 1)

add_names(store, names) == AddLoop(store, names, 1)

\* dict(self._letter_counts).
get_counts_by_letter(store) == store._letter_counts

\* ------------------------------------------------------------------ state

VARIABLES
    fn,                \* the function under call
    pc,                \* "call": arguments bound; "done": it has returned;
                       \*   in run, "loop" and "report" before "done"
    timestamps,        \* _parse_timestamps_to_intervals: argument
    parsed,            \*   and return value
    intervals,         \* _clip_intervals_to_lesson: arguments
    lesson_start,
    lesson_end,
    clipped_intervals, \*   and return value
    intervals1,        \* _calculate_overlap_duration: arguments
    intervals2,
    total_duration,    \*   and return value
    intervals_data,    \* appearance: argument
    outcome,           \*   and what the call produced
    strict_call,       \* strict: the decorated function, the call, its outcome
    data_store,        \* AnimalDataStore: its fields, and the names of the
                       \*   last add_names called on it directly
    scraper            \* WikipediaAnimalScraper: its fields and run's locals

vars == <<fn, pc, timestamps, parsed, intervals, lesson_start, lesson_end,
          clipped_intervals, intervals1, intervals2, total_duration,
          intervals_data, outcome, strict_call, data_store, scraper>>

\* The state of task1 and task2, which the functions of task3 never touch.
others == <<strict_call, data_store, scraper>>

\* The state of task3.
task3 == <<timestamps, parsed, intervals, lesson_start, lesson_end,
           clipped_intervals, intervals1, intervals2, total_duration,
           intervals_data, outcome>>

\* Arguments and results of the functions that are not under call.
NoParse == timestamps = <<>> /\ parsed = <<>>

NoClip ==
    /\ intervals = <<>>
    /\ lesson_start = 0
    /\ lesson_end = 0
    /\ clipped_intervals = <<>>

NoOverlap == intervals1 = <<>> /\ intervals2 = <<>> /\ total_duration = 0

NoAppearance == intervals_data = <<>> /\ outcome = Returned(0)

NoTask3 == NoParse /\ NoClip /\ NoOverlap /\ NoAppearance

NoStrict == strict_call = <<>>

NoStore == data_store = <<>>

NoScraper == scraper = <<>>

NoOthers == NoStrict /\ NoStore /\ NoScraper

\* ---- _parse_timestamps_to_intervals on every bounded timestamp list

InitParse ==
    /\ fn = "parse"
    /\ pc = "call"
    /\ timestamps \in SeqUpTo(Time, MaxStamps)
    /\ parsed = <<>>
    /\ NoClip /\ NoOverlap /\ NoAppearance
    /\ NoOthers

Parse ==
    /\ fn = "parse"
    /\ pc = "call"
    /\ parsed' = _parse_timestamps_to_intervals(timestamps)
    /\ pc' = "done"
    /\ UNCHANGED <<fn, timestamps, intervals, lesson_start, lesson_end,
                   clipped_intervals, intervals1, intervals2, total_duration,
                   intervals_data, outcome>>
    /\ UNCHANGED others

SpecParse == InitParse /\ [][Parse]_vars

\* ---- _clip_intervals_to_lesson on every bounded list of tuples and bounds

InitClip ==
    /\ fn = "clip"
    /\ pc = "call"
    /\ intervals \in SeqUpTo(Pairs(Time), MaxIntervals)
    /\ lesson_start \in Time
    /\ lesson_end \in Time
    /\ clipped_intervals = <<>>
    /\ NoParse /\ NoOverlap /\ NoAppearance
    /\ NoOthers

Clip ==
    /\ fn = "clip"
    /\ pc = "call"
    /\ clipped_intervals' =
           _clip_intervals_to_lesson(intervals, lesson_start, lesson_end)
    /\ pc' = "done"
    /\ UNCHANGED <<fn, timestamps, parsed, intervals, lesson_start, lesson_end,
                   intervals1, intervals2, total_duration, intervals_data,
                   outcome>>
    /\ UNCHANGED others

SpecClip == InitClip /\ [][Clip]_vars

\* ---- _calculate_overlap_duration on every bounded pair of interval lists

InitOverlap ==
    /\ fn = "overlap"
    /\ pc = "call"
    /\ intervals1 \in SeqUpTo(Intervals(SessionTime), MaxIntervals)
    /\ intervals2 \in SeqUpTo(Intervals(SessionTime), MaxIntervals)
    /\ total_duration = 0
    /\ NoParse /\ NoClip /\ NoAppearance
    /\ NoOthers

Overlap ==
    /\ fn = "overlap"
    /\ pc = "call"
    /\ total_duration' = _calculate_overlap_duration(intervals1, intervals2)
    /\ pc' = "done"
    /\ UNCHANGED <<fn, timestamps, parsed, intervals, lesson_start, lesson_end,
                   clipped_intervals, intervals1, intervals2, intervals_data,
                   outcome>>
    /\ UNCHANGED others

SpecOverlap == InitOverlap /\ [][Overlap]_vars

\* ---- appearance on every bounded mapping

Init ==
    /\ fn = "appearance"
    /\ pc = "call"
    /\ \E lesson \in Binding(SeqUpTo(SessionTime, MaxLessonLen)),
          pupil  \in Binding(SeqUpTo(SessionTime, MaxPupilLen)),
          tutor  \in Binding(SeqUpTo(SessionTime, MaxTutorLen)) :
           intervals_data = SessionInput(lesson, pupil, tutor)
    /\ outcome = Returned(0)
    /\ NoParse /\ NoClip /\ NoOverlap
    /\ NoOthers

Appearance ==
    /\ fn = "appearance"
    /\ pc = "call"
    /\ outcome' = appearance(intervals_data)
    /\ pc' = "done"
    /\ UNCHANGED <<fn, timestamps, parsed, intervals, lesson_start, lesson_end,
                   clipped_intervals, intervals1, intervals2, total_duration,
                   intervals_data>>
    /\ UNCHANGED others

Next == Appearance

Spec == Init /\ [][Next]_vars

\* ---- a call of a strict-decorated function, on every bounded signature

InitStrict ==
    /\ fn = "strict"
    /\ pc = "call"
    /\ \E n \in 0 .. MaxParams :
         \E annotated \in [1 .. n -> Types \cup {""}],
            returns \in Types \cup {""},
            arg_types \in [1 .. n -> Types] :
              strict_call = [annotated |-> annotated,
                             func_annotations |-> Annotations(annotated, returns),
                             arg_types |-> arg_types,
                             result |-> Invoked]
    /\ NoTask3 /\ NoStore /\ NoScraper

Wrapper ==
    /\ fn = "strict"
    /\ pc = "call"
    /\ strict_call' = [strict_call EXCEPT
                         !.result = wrapper(strict_call.func_annotations,
                                            strict_call.arg_types)]
    /\ pc' = "done"
    /\ UNCHANGED <<fn, task3, data_store, scraper>>

SpecStrict == InitStrict /\ [][Wrapper]_vars

\* ---- AnimalDataStore under any sequence of add_names calls

InitStore ==
    /\ fn = "store"
    /\ pc = "call"
    /\ data_store = [store |-> NewStore, names |-> <<>>]
    /\ NoTask3 /\ NoStrict /\ NoScraper

AddNames ==
    /\ fn = "store"
    /\ \E names \in SeqUpTo(Names, MaxNames) :
         data_store' = [store |-> add_names(data_store.store, names),
                        names |-> names]
    /\ pc' = "done"
    /\ UNCHANGED <<fn, task3, strict_call, scraper>>

SpecStore == InitStore /\ [][AddNames]_vars

\* ---- WikipediaAnimalScraper.run over every web of pages

\* URLs are numbered; None stands for the missing (or empty) URL.
None == 0

Urls == 1 .. NumUrls

\* What fetch returns for a page: ok is FALSE when the fetch failed or the
\* content is empty; otherwise the page carries the names the parser extracts
\* and the next-page link the parser finds (None when there is none).
FailedFetch == [ok |-> FALSE, names |-> <<>>, next |-> None]

\* The names the pages of the web carry.
PageNames == {<<"a">>, <<"B">>}

Html ==
    {FailedFetch}
      \cup [ok : {TRUE}, names : SeqUpTo(PageNames, MaxPageNames), next : Urls \cup {None}]

\* The scraper after construction and the first two assignments of run.
NewScraper(start_url, max_pages_to_scrape) ==
    [ _visited_urls |-> {},
      fetched |-> <<>>,
      current_url |-> start_url,
      pages_scraped_count |-> 0,
      max_pages_to_scrape |-> max_pages_to_scrape,
      html |-> FailedFetch,
      next_page_url |-> None,
      reports |-> <<>> ]

\* _scrape_single_page without the visited test: every URL is fetched.
ScrapeSinglePage_NoVisitedTest(sc, store, url, html) ==
    [ _visited_urls |-> sc._visited_urls \cup {url},
      fetched |-> Append(sc.fetched, url),
      html |-> html,
      store |-> IF html.ok THEN add_names(store, html.names) ELSE store,
      result |-> IF html.ok THEN html.next ELSE None ]

\* _scrape_single_page: html is what fetch gives if it is called.
ScrapeSinglePage(sc, store, url, html) ==
    IF url \in sc._visited_urls
    THEN [ _visited_urls |-> sc._visited_urls,
           fetched |-> sc.fetched,
           html |-> sc.html,
           store |-> store,
           result |-> None ]
    ELSE [ _visited_urls |-> sc._visited_urls \cup {url},
           fetched |-> Append(sc.fetched, url),
           html |-> html,
           store |-> IF html.ok THEN add_names(store, html.names) ELSE store,
           result |-> IF html.ok THEN html.next ELSE None ]

\* The loop condition of run.
LoopCondition(sc) ==
    /\ sc.current_url # None
    /\ sc.pages_scraped_count < sc.max_pages_to_scrape

\* Whether the loop body leaves the loop through one of its two breaks.
Breaks(sc, page) ==
    \/ sc.current_url = page.result
    \/ page.result = None

\* The scraper after one pass through the loop body.
LoopBody(sc, page) ==
    IF sc.current_url = page.result
    THEN [sc EXCEPT !._visited_urls = page._visited_urls,
                    !.fetched = page.fetched,
                    !.html = page.html,
                    !.next_page_url = page.result]
    ELSE [sc EXCEPT !._visited_urls = page._visited_urls,
                    !.fetched = page.fetched,
                    !.html = page.html,
                    !.next_page_url = page.result,
                    !.current_url = page.result,
                    !.pages_scraped_count = sc.pages_scraped_count + 1]

InitScraper ==
    /\ fn = "scraper"
    /\ pc = "loop"
    /\ \E start_url \in Urls \cup {None}, max_pages_to_scrape \in 0 .. MaxPages :
         scraper = NewScraper(start_url, max_pages_to_scrape)
    /\ data_store = [store |-> NewStore, names |-> <<>>]
    /\ NoTask3 /\ NoStrict

\* One iteration of the while loop of run.
ScrapePage ==
    /\ fn = "scraper"
    /\ pc = "loop"
    /\ LoopCondition(scraper)
    /\ \E html \in Html :
         LET page == ScrapeSinglePage(scraper, data_store.store,
                                      scraper.current_url, html)
         IN  /\ scraper' = LoopBody(scraper, page)
             /\ data_store' = [data_store EXCEPT !.store = page.store]
             /\ pc' = IF Breaks(scraper, page) THEN "report" ELSE "loop"
    /\ UNCHANGED <<fn, task3, strict_call>>

\* The loop condition is false: run goes on to the report.
LeaveLoop ==
    /\ fn = "scraper"
    /\ pc = "loop"
    /\ ~LoopCondition(scraper)
    /\ pc' = "report"
    /\ UNCHANGED <<fn, task3, strict_call, data_store, scraper>>

\* The report is written from the counts of the store.
WriteReport ==
    /\ fn = "scraper"
    /\ pc = "report"
    /\ scraper' = [scraper EXCEPT
                     !.reports = Append(scraper.reports,
                                        get_counts_by_letter(data_store.store))]
    /\ pc' = "done"
    /\ UNCHANGED <<fn, task3, strict_call, data_store>>

NextScraper == ScrapePage \/ LeaveLoop \/ WriteReport

\* The event loop runs the coroutine of run to its end: every await in it
\* returns (fetch is bounded by its timeout), so a step that can be taken is
\* taken.
SpecScraper == InitScraper /\ [][NextScraper]_vars /\ WF_vars(NextScraper)

\* ================================================================== claims

ParseDone == fn = "parse" /\ pc = "done"

ClipDone == fn = "clip" /\ pc = "done"

OverlapDone == fn = "overlap" /\ pc = "done"

AppearanceDone == fn = "appearance" /\ pc = "done"

\* Some tuple of the list covers the time unit [t, t + 1).
Covers(list, t) == \E k \in DOMAIN list : list[k][1] <= t /\ t < list[k][2]

\* ---- appearance

\* The pairs (ts[2i], ts[2i+1]) of a flat list, in order (0-based i; the
\* 1-based positions are 2i+1 and 2i+2).
RawPairs(ts) == [i \in 1 .. (Len(ts) \div 2) |-> <<ts[2 * i - 1], ts[2 * i]>>]

\* The pairs bound to a key of the mapping; none when the key is absent.
PairsOf(d, key) == IF key \in DOMAIN d THEN RawPairs(d[key]) ELSE <<>>

\* The mapping has a valid bounding interval.
ValidLesson(d) ==
    /\ "lesson" \in DOMAIN d
    /\ Len(d["lesson"]) >= 2
    /\ d["lesson"][1] < d["lesson"][2]

\* The time units of the lesson in which some pupil pair and some tutor
\* pair are both present.
CommonPresence(d) ==
    {t \in d["lesson"][1] .. (d["lesson"][2] - 1) :
        Covers(PairsOf(d, "pupil"), t) /\ Covers(PairsOf(d, "tutor"), t)}

\* C1: with a valid bounding interval, appearance returns exactly the
\* number of time units t, lesson[0] <= t < lesson[1], at which some pupil
\* pair and some tutor pair are both present; a unit covered by several
\* pairs counts once.
C1_AppearanceCountsCommonPresence ==
    (AppearanceDone /\ ValidLesson(intervals_data))
        => outcome = Returned(Cardinality(CommonPresence(intervals_data)))

\* C1 witness: a returned call in which two different pupil pairs cover the
\* same time unit of the lesson together with the tutor, the pupil list
\* also holds a pair reaching outside the lesson, and the unit is counted.
C1_Witness ==
    /\ AppearanceDone
    /\ ValidLesson(intervals_data)
    /\ outcome.value >= 1
    /\ \E t \in CommonPresence(intervals_data) :
         \E k1, k2 \in DOMAIN PairsOf(intervals_data, "pupil") :
            /\ k1 # k2
            /\ Covers(<<PairsOf(intervals_data, "pupil")[k1]>>, t)
            /\ Covers(<<PairsOf(intervals_data, "pupil")[k2]>>, t)
    /\ \E k \in DOMAIN PairsOf(intervals_data, "pupil") :
         PairsOf(intervals_data, "pupil")[k][1] < intervals_data["lesson"][1]

\* C3: appearance is total: whatever keys are missing and however
\* malformed the lists are, it raises nothing and returns a non-negative
\* integer.
C3_AppearanceTotal ==
    AppearanceDone => (~outcome.raised /\ outcome.value \in Nat)

\* C3 witness: a returned call on a mapping with a missing key and a
\* one-element lesson.
C3_Witness ==
    /\ AppearanceDone
    /\ "pupil" \notin DOMAIN intervals_data
    /\ "lesson" \in DOMAIN intervals_data
    /\ Len(intervals_data["lesson"]) = 1
    /\ "tutor" \in DOMAIN intervals_data
    /\ Len(intervals_data["tutor"]) = 1

\* C4: with an invalid bounding interval (lesson absent, shorter than 2,
\* or lesson[0] >= lesson[1]) appearance returns 0 whatever pupil and
\* tutor hold.
C4_InvalidLessonGivesZero ==
    (AppearanceDone /\ ~ValidLesson(intervals_data)) => outcome = Returned(0)

\* C4 witness: a returned call with an inverted lesson whose span, read
\* the other way round, is covered by both the pupil and the tutor.
C4_Witness ==
    /\ AppearanceDone
    /\ "lesson" \in DOMAIN intervals_data
    /\ Len(intervals_data["lesson"]) >= 2
    /\ intervals_data["lesson"][1] > intervals_data["lesson"][2]
    /\ Covers(PairsOf(intervals_data, "pupil"), intervals_data["lesson"][2])
    /\ Covers(PairsOf(intervals_data, "tutor"), intervals_data["lesson"][2])

\* ---- _calculate_overlap_duration

\* The time units covered by at least one pairwise intersection
\* [max(a.start, b.start), min(a.end, b.end)).
IntersectionUnion(A, B) ==
    {t \in 0 .. (MaxSessionTime + 1) :
        \E i \in DOMAIN A, j \in DOMAIN B :
            Max(A[i][1], B[j][1]) <= t /\ t < Min(A[i][2], B[j][2])}

\* The number of pairs (a, b) whose intersection covers the time unit t.
PairsCovering(A, B, t) ==
    Cardinality({ij \in (DOMAIN A) \X (DOMAIN B) :
        Max(A[ij[1]][1], B[ij[2]][1]) <= t /\ t < Min(A[ij[1]][2], B[ij[2]][2])})

\* C2: _calculate_overlap_duration(A, B) is the size of the union of the
\* pairwise intersections: each covered time unit counts once, and the
\* result is 0 when a list is empty.
C2_OverlapIsUnionOfIntersections ==
    OverlapDone
        => total_duration = Cardinality(IntersectionUnion(intervals1, intervals2))

\* C2 witness: a returned call in which some time unit is covered by two
\* or more pairs.
C2_Witness ==
    /\ OverlapDone
    /\ total_duration >= 1
    /\ \E t \in SessionTime : PairsCovering(intervals1, intervals2, t) >= 2

\* C5: _calculate_overlap_duration(A, B) = _calculate_overlap_duration(B, A).
C5_OverlapSymmetric ==
    OverlapDone
        => total_duration = _calculate_overlap_duration(intervals2, intervals1)

\* C5 witness: a returned call with a positive result whose common
\* segments come out in a different order when the lists are swapped.
C5_Witness ==
    /\ OverlapDone
    /\ total_duration >= 1
    /\ intervals1 # intervals2
    /\ SortByStart(CommonSegments(intervals1, intervals2))
         # SortByStart(CommonSegments(intervals2, intervals1))

\* A with its k-th interval replaced by (s, e).
Replaced(A, k, s, e) == [A EXCEPT ![k] = <<s, e>>]

\* C6: replacing one interval (s, e) of A by a wider (s', e'), s' <= s and
\* e <= e', never decreases _calculate_overlap_duration(A, B).
C6_OverlapMonotonic ==
    OverlapDone
        => \A k \in DOMAIN intervals1 :
             \A s \in 0 .. intervals1[k][1] :
                \A e \in intervals1[k][2] .. (MaxSessionTime + 1) :
                    _calculate_overlap_duration(Replaced(intervals1, k, s, e),
                                                intervals2)
                        >= total_duration

\* C6 witness: a returned call on two intervals in A with a positive
\* result that a widening of one of them makes strictly larger.
C6_Witness ==
    /\ OverlapDone
    /\ total_duration >= 1
    /\ Len(intervals1) = 2
    /\ \E k \in DOMAIN intervals1 :
         \E s \in 0 .. intervals1[k][1] :
            \E e \in intervals1[k][2] .. MaxSessionTime :
                _calculate_overlap_duration(Replaced(intervals1, k, s, e),
                                            intervals2)
                    > total_duration

\* ---- _clip_intervals_to_lesson

\* C7: clipping is idempotent, for all bounds (lesson_start > lesson_end
\* included): clipping the returned list again returns it unchanged.
C7_ClipIdempotent ==
    ClipDone
        => _clip_intervals_to_lesson(clipped_intervals, lesson_start, lesson_end)
             = clipped_intervals

\* C7 witness: a returned call that truncated a tuple and kept it.
C7_Witness ==
    /\ ClipDone
    /\ clipped_intervals # <<>>
    /\ \E k \in DOMAIN clipped_intervals :
         \A m \in DOMAIN intervals : intervals[m] # clipped_intervals[k]

\* (max(s, L), min(e, U)) for a tuple (s, e).
ClipOf(p, L, U) == <<Max(p[1], L), Min(p[2], U)>>

NonEmpty(p) == p[1] < p[2]

\* C8: every returned (s, e) has L <= s < e <= U, and the returned list is
\* exactly the clips (max(s, L), min(e, U)) that are non-empty, in the
\* input's order; tuples outside the bounds or only touching one are
\* discarded.
C8_ClipResult ==
    ClipDone
        => /\ \A k \in DOMAIN clipped_intervals :
                /\ lesson_start <= clipped_intervals[k][1]
                /\ clipped_intervals[k][1] < clipped_intervals[k][2]
                /\ clipped_intervals[k][2] <= lesson_end
           /\ clipped_intervals
                = SelectSeq([k \in DOMAIN intervals |->
                                ClipOf(intervals[k], lesson_start, lesson_end)],
                            NonEmpty)

\* C8 witness: a returned call whose input held a well-formed tuple that
\* only touches a bound (discarded) followed by one that was truncated at
\* both bounds and kept.
C8_Witness ==
    /\ ClipDone
    /\ lesson_start < lesson_end
    /\ Len(intervals) = 2
    /\ intervals[1][1] < intervals[1][2]
    /\ intervals[1][2] = lesson_start
    /\ intervals[2][1] < lesson_start
    /\ intervals[2][2] > lesson_end
    /\ clipped_intervals = <<(<<lesson_start, lesson_end>>)>>

\* ---- _parse_timestamps_to_intervals

\* C9: the returned list is exactly the pairs (T[2i], T[2i+1]),
\* i = 0 .. floor(len(T)/2) - 1, with T[2i] < T[2i+1], in increasing i; a
\* dropped pair does not shift the pairing of what follows.
C9_ParseResult ==
    ParseDone => parsed = SelectSeq(RawPairs(timestamps), NonEmpty)

\* C9 witness: a returned call on a list whose first pair is inverted and
\* whose second pair is kept, although the elements in between would also
\* form a well-formed pair.
C9_Witness ==
    /\ ParseDone
    /\ Len(timestamps) >= 4
    /\ timestamps[1] > timestamps[2]
    /\ timestamps[2] < timestamps[3]
    /\ timestamps[3] < timestamps[4]
    /\ parsed = <<(<<timestamps[3], timestamps[4]>>)>>

\* The list without its last element.
Front(ts) == SubSeq(ts, 1, Len(ts) - 1)

\* C10: a trailing unpaired element changes nothing: for an even-length T
\* and any x, parsing T + [x] returns what parsing T returns.
C10_ParseIgnoresTrailing ==
    (ParseDone /\ Len(timestamps) % 2 = 1)
        => parsed = _parse_timestamps_to_intervals(Front(timestamps))

\* C10 witness: a returned call on [s1, e1, s2, e2, x] with both pairs
\* kept and x larger than e2.
C10_Witness ==
    /\ ParseDone
    /\ Len(timestamps) = 5
    /\ Len(parsed) = 2
    /\ timestamps[5] > timestamps[4]

\* ---- appearance: extra lesson values

\* The mapping with its lesson cut down to the first two values.
LessonCut(d) == [d EXCEPT !["lesson"] = SubSeq(d["lesson"], 1, 2)]

\* C11: only the first two values of lesson define the bound: with
\* lesson = [s, e, x1, ..., xn] appearance returns what it returns with
\* lesson = [s, e], for every pupil and tutor.
C11_ExtraLessonValuesIgnored ==
    (AppearanceDone
       /\ "lesson" \in DOMAIN intervals_data
       /\ Len(intervals_data["lesson"]) >= 2)
        => outcome = appearance(LessonCut(intervals_data))

\* C11 witness: a returned call with a positive result on a lesson of
\* three values whose third value, taken as the end, would bound a
\* different span.
C11_Witness ==
    /\ AppearanceDone
    /\ "lesson" \in DOMAIN intervals_data
    /\ Len(intervals_data["lesson"]) = 3
    /\ intervals_data["lesson"][3] # intervals_data["lesson"][2]
    /\ outcome.value >= 1

\* ---- _calculate_overlap_duration: the merge sweep

\* merged_segments of the call under way, as the code builds it (the empty
\* list when the function returns early for want of common segments).
MergedOfCall ==
    LET common_segments == CommonSegments(intervals1, intervals2)
    IN  IF common_segments = <<>> THEN <<>>
        ELSE MergedSegments(SortByStart(common_segments))

StrictDone == fn = "strict" /\ pc = "done"

\* The annotated parameters whose argument's type is not the annotated type.
Mismatched ==
    {k \in DOMAIN strict_call.arg_types :
        /\ strict_call.annotated[k] # ""
        /\ strict_call.arg_types[k] # strict_call.annotated[k]}

\* The least element of a non-empty set of positions.
First(S) == CHOOSE k \in S : \A j \in S : k <= j

\* C12: a call in which some argument's type differs from its parameter's
\* annotated type (any two distinct types among bool, int, float, str)
\* raises TypeError naming the first such parameter in binding order and
\* does not invoke the wrapped function; unannotated parameters and the
\* return annotation are never checked.
C12_StrictRejectsEveryMismatch ==
    StrictDone
        => IF Mismatched # {}
           THEN strict_call.result = TypeErrorFor(First(Mismatched))
           ELSE strict_call.result = Invoked

\* ---- AnimalDataStore

StoreCalled == fn = "store" /\ pc = "done"

\* The sum of the counts of a counter.
RECURSIVE SumOver(_, _)
SumOver(counter, keys) ==
    IF keys = {} THEN 0
    ELSE LET key == CHOOSE k \in keys : TRUE
         IN  counter[key] + SumOver(counter, keys \ {key})

\* The collected names whose upper-cased first character is c.
CollectedUnder(c) ==
    {name \in data_store.store._all_collected_names : Upper(name[1]) = c}

\* Every name of the list was collected before the call (or is empty).
AllKnown(names, store) ==
    \A k \in DOMAIN names :
        names[k] = <<>> \/ names[k] \in store._all_collected_names

\* C15: after any sequence of add_names calls each distinct non-empty name
\* is counted at most once: for every letter c of the alphabet the count
\* of c (0 if absent) is the number of distinct collected names whose
\* upper-cased first character is c, the counts sum to no more than the
\* number of collected names, and a call that adds only names collected
\* before leaves the counts and the collected set unchanged.
C15_StoreCountsDistinctNames ==
    /\ [](fn = "store"
            => LET counts == get_counts_by_letter(data_store.store)
               IN  /\ <<>> \notin data_store.store._all_collected_names
                   /\ \A c \in Alphabet :
                        CounterGet(counts, c) = Cardinality(CollectedUnder(c))
                   /\ SumOver(counts, DOMAIN counts)
                        <= Cardinality(data_store.store._all_collected_names))
    /\ [][(fn = "store" /\ AllKnown(data_store'.names, data_store.store))
            => data_store'.store = data_store.store]_vars

\* C15 witness: after a call whose list named the same name twice, the
\* store holds two names that differ only in case, both counted under one
\* letter, and a name no letter of the alphabet counts.
C15_Witness ==
    /\ StoreCalled
    /\ Len(data_store.names) = 2
    /\ data_store.names[1] = data_store.names[2]
    /\ {<<"A">>, <<"a">>, <<"1">>} \subseteq data_store.store._all_collected_names
    /\ CounterGet(data_store.store._letter_counts, "A") = 2

\* ---- WikipediaAnimalScraper.run

ScraperRuns == fn = "scraper"

NoRepeat(urls) ==
    \A i, j \in 1 .. Len(urls) : urls[i] = urls[j] => i = j

\* A step of the loop that fetches a page.
Fetches == Len(scraper'.fetched) = Len(scraper.fetched) + 1

\* The fetch of this step failed, or its page has no next link, or links to
\* itself.
StopsAtOnce ==
    /\ Fetches
    /\ \/ ~scraper'.html.ok
       \/ scraper'.html.next = None
       \/ scraper'.html.next = scraper.current_url

\* The page fetched in this step links to a page visited earlier.
LinksBack ==
    /\ Fetches
    /\ scraper'.html.ok
    /\ scraper'.html.next \in scraper._visited_urls

\* Nothing is left to scrape: the loop is over, or it stands at no URL or at a
\* visited one.
Halted ==
    \/ pc # "loop"
    \/ scraper.current_url = None
    \/ scraper.current_url \in scraper._visited_urls

\* The loop is about to make another pass.
LoopGoesOn == pc = "loop" /\ LoopCondition(scraper)

\* What holds of every state of a run.
RunSafe ==
    /\ Len(scraper.fetched) <= scraper.max_pages_to_scrape
    /\ Len(scraper.fetched) <= scraper.pages_scraped_count + 1
    /\ NoRepeat(scraper.fetched)
    /\ Len(scraper.reports) = IF pc = "done" THEN 1 ELSE 0

\* C14 as stated: run terminates and then has written the report exactly
\* once; it fetches at most max_pages_to_scrape pages and no URL twice; and
\* the loop makes no further pass once a fetch fails, no next link is
\* found, the next URL equals the current one, or the next URL was visited.
C14_LoopStopsAtOnce ==
    /\ ScraperRuns => <>(pc = "done" /\ Len(scraper.reports) = 1)
    /\ [](ScraperRuns => RunSafe)
    /\ [][(ScraperRuns /\ (StopsAtOnce \/ LinksBack)) => ~LoopGoesOn']_vars

\* C14, amended: as stated for termination, the report, the number of fetches
\* and the first three stops; when the next URL was visited before, the loop
\* may make one more pass, which fetches nothing and leaves the loop.  Once
\* nothing is left to scrape no page is fetched any more.
C14_RunTerminates ==
    /\ ScraperRuns => <>(pc = "done" /\ Len(scraper.reports) = 1)
    /\ [](ScraperRuns => RunSafe)
    /\ [][(ScraperRuns /\ StopsAtOnce) => ~LoopGoesOn']_vars
    /\ [][(ScraperRuns /\ LinksBack) => Halted']_vars
    /\ [][(ScraperRuns /\ Halted)
            => /\ Halted'
               /\ scraper'.fetched = scraper.fetched
               /\ pc = "loop" => pc' = "report"]_vars

\* A finished run over a cycle of two pages: the second page links back to
\* the first, the loop made its extra pass, and the report is written.
C14_Witness ==
    /\ ScraperRuns
    /\ pc = "done"
    /\ Len(scraper.reports) = 1
    /\ Len(scraper.fetched) = 2
    /\ scraper.html.ok
    /\ scraper.html.next = scraper.fetched[1]
    /\ scraper.pages_scraped_count = 3

=============================================================================
